---- MODULE Spec2Model ----
(***************************************************************************)
(* Model of the two self-contained computations of the traffic privacy     *)
(* demo:                                                                   *)
(*   - generate.py : simulate_driver_route / generate_traffic_data         *)
(*   - analyze.py  : analyze_congestion_patterns (grid aggregation)        *)
(*                                                                         *)
(* Time values.  pandas Timestamps and Timedeltas are 64-bit nanosecond    *)
(* counts.  They are kept here as records [s, ns] (whole seconds and the   *)
(* nanoseconds 0..999999999 within the second) so that every intermediate  *)
(* value stays inside TLC's integer range; Timestamps count from           *)
(* 2024-01-01 00:00:00.                                                    *)
(*                                                                         *)
(* Positions.  The latitude and longitude of a generated sample come from  *)
(* random.uniform and influence neither the timestamps nor the number of   *)
(* samples; generated samples carry their timestamp and the loop that      *)
(* appended them (seg), not a position.                                    *)
(***************************************************************************)
EXTENDS Integers, Sequences, FiniteSets

VARIABLES
    \* ---- generate.py ----
    g_pc,             \* position inside generate_traffic_data / simulate_driver_route
    num_drivers,      \* argument of generate_traffic_data
    simulation_days,  \* argument of generate_traffic_data
    driver_id,        \* loop variable, line 108
    day,              \* loop variable, line 112
    i,                \* loop variable of the commute loops, lines 45 and 75
    hour,             \* loop variable, line 62
    minute,           \* loop variable, line 63
    route_points,     \* list built by simulate_driver_route
    all_data,         \* list built by generate_traffic_data
    df,               \* the DataFrame of line 128 (its rows)
    g_error,          \* exception that ended generate_traffic_data, or "none"
    \* ---- analyze.py ----
    a_pc,             \* position inside analyze_congestion_patterns
    all_coords,       \* argument: sequence of [lat, lon]
    total_points,     \* line 92
    average_location, \* lines 93-94, as fractions
    bbox,             \* lat_min, lat_max, lon_min, lon_max (lines 98-99)
    k,                \* loop variable of the counting loop, line 109
    lat_idx,          \* line 114
    lon_idx,          \* line 115
    congestion_grid,  \* line 107
    hotspots,         \* line 123
    a_error,          \* exception that ended the analysis, or "none"
    \* ---- analyze.py: the researcher workflow main() ----
    w_pc,             \* position inside main / request_congestion_analysis
    store,            \* names of the items held by the domain's store
    connected,        \* sy.login returned a domain
    available_data,   \* line 267
    coords_ref,       \* line 149 returned
    ids_ref,          \* line 150 returned
    analysis_request, \* "none", "created" (line 153) or "sent" (line 154)
    req_outcome,      \* how request_congestion_analysis ended: "none", "raised", "returned"
    results,          \* line 274
    visualized,       \* visualize_congestion_analysis was called (line 277)
    displayed,        \* display_insights was called (line 280)
    w_error           \* the exception that reached main's handler, or "none"

gen_vars == <<g_pc, num_drivers, simulation_days, driver_id, day, i, hour, minute,
              route_points, all_data, df, g_error>>
agg_vars == <<a_pc, all_coords, total_points, average_location, bbox, k, lat_idx, lon_idx,
              congestion_grid, hotspots, a_error>>
wf_vars == <<w_pc, store, connected, available_data, coords_ref, ids_ref,
             analysis_request, req_outcome, results, visualized, displayed, w_error>>
vars == <<gen_vars, agg_vars, wf_vars>>

(***************************************************************************)
(* Bounds of the model                                                     *)
(***************************************************************************)
MaxDrivers == 2
MaxDays == 2
MaxPoints == 7

(***************************************************************************)
(* Timedelta / Timestamp arithmetic                                        *)
(***************************************************************************)
NsPerSec == 1000 * 1000 * 1000
SecPerDay == 24 * 3600

Timedelta(hours, minutes) == [s |-> hours * 3600 + minutes * 60, ns |-> 0]

\* Timedelta * float: pandas computes <int64>(float * value), i.e. the product
\* truncated to whole nanoseconds.  The float is the rational num/den.
TdScale(td, num, den) ==
    LET S   == td.s * num
        qs  == S \div den
        rs  == S % den
        Eq  == NsPerSec \div den
        Er  == NsPerSec % den
        nq  == td.ns \div den
        nr  == td.ns % den
        A   == rs * Eq
        B   == nq * num
        C   == (rs * Er + nr * num) \div den
        tot == A + (B % NsPerSec) + C
    IN  [s  |-> qs + (B \div NsPerSec) + (tot \div NsPerSec),
         ns |-> tot % NsPerSec]

\* Timestamp + Timedelta
TsAdd(ts, td) ==
    [s  |-> ts.s + td.s + ((ts.ns + td.ns) \div NsPerSec),
     ns |-> (ts.ns + td.ns) % NsPerSec]

\* Timestamp - Timestamp, for b <= a
TsSub(a, b) ==
    IF a.ns >= b.ns
    THEN [s |-> a.s - b.s, ns |-> a.ns - b.ns]
    ELSE [s |-> a.s - b.s - 1, ns |-> a.ns + NsPerSec - b.ns]

TsLeq(a, b) == a.s < b.s \/ (a.s = b.s /\ a.ns <= b.ns)
TsLess(a, b) == a.s < b.s \/ (a.s = b.s /\ a.ns < b.ns)

\* pd.Timestamp('2024-01-01') + pd.Timedelta(days=day)
DayStart(d) == [s |-> d * SecPerDay, ns |-> 0]

\* start_time.replace(hour=7, minute=0): date, second and sub-second kept
ReplaceHourMinute(ts, h, m) ==
    [s  |-> (ts.s \div SecPerDay) * SecPerDay + h * 3600 + m * 60 + (ts.s % 60),
     ns |-> ts.ns]

(***************************************************************************)
(* simulate_driver_route                                                   *)
(***************************************************************************)
num_points == 20
num_evening_points == 20
WorkHours == 8
MinuteStep == 15

commute_duration == Timedelta(2, 0)
evening_commute_duration == Timedelta(2, 0)

morning_start(start_time) == ReplaceHourMinute(start_time, 7, 0)
work_start(start_time) == TsAdd(morning_start(start_time), commute_duration)
evening_start(start_time) == TsAdd(work_start(start_time), Timedelta(8, 0))

\* 0.3 < t < 0.7 with t = j / (n - 1)
InMorningWindow(j, n) == 3 * (n - 1) < 10 * j /\ 10 * j < 7 * (n - 1)
\* variant: the upper end of the evening window forgotten (0.2 < t)
InEveningWindowOpen(j, n) == 2 * (n - 1) < 10 * j
\* 0.2 < t < 0.8 with t = j / (n - 1)
InEveningWindow(j, n) == 2 * (n - 1) < 10 * j /\ 10 * j < 8 * (n - 1)

\* variant: the morning multiplier left out
MorningDilateNone(td) == td
\* time_offset * 1.5
MorningDilate(td) == TdScale(td, 3, 2)
\* time_offset * 1.3
EveningDilate(td) == TdScale(td, 13, 10)

\* lines 47-57: time_offset of morning sample j
MorningOffset(j) ==
    LET time_offset == TdScale(commute_duration, j, num_points - 1)
    IN  IF InMorningWindow(j, num_points) THEN MorningDilate(time_offset)
        ELSE time_offset

\* lines 76-85: time_offset of evening sample j
EveningOffset(j) ==
    LET time_offset == TdScale(evening_commute_duration, j, num_evening_points - 1)
    IN  IF InEveningWindow(j, num_evening_points) THEN EveningDilate(time_offset)
        ELSE time_offset

MorningSample(start_time, j) ==
    [seg |-> "morning", timestamp |-> TsAdd(morning_start(start_time), MorningOffset(j))]

WorkSample(start_time, h, m) ==
    [seg |-> "workday", timestamp |-> TsAdd(work_start(start_time), Timedelta(h, m))]

EveningSample(start_time, j) ==
    [seg |-> "evening", timestamp |-> TsAdd(evening_start(start_time), EveningOffset(j))]

\* lines 119-125: one row per sample of the route
Row(d, p) == [driver_id |-> d, seg |-> p.seg, timestamp |-> p.timestamp]

\* variant: the last sample of the route is not copied
RouteRowsDropLast(d, route) == [n \in 1..(Len(route) - 1) |-> Row(d, route[n])]
RouteRows(d, route) == [n \in 1..Len(route) |-> Row(d, route[n])]

(***************************************************************************)
(* generate_traffic_data, with simulate_driver_route inlined at line 116   *)
(***************************************************************************)
DriverCounts == -1..MaxDrivers
DayCounts == -1..MaxDays

GenInit ==
    /\ g_pc = "start"
    /\ num_drivers \in DriverCounts
    /\ simulation_days \in DayCounts
    /\ driver_id = 0
    /\ day = 0
    /\ i = 0
    /\ hour = 0
    /\ minute = 0
    /\ route_points = <<>>
    /\ all_data = <<>>
    /\ df = <<>>
    /\ g_error = "none"

\* lines 102-106: all_data = [], the banner, the clock; no check of the arguments
Begin ==
    /\ g_pc = "start"
    /\ all_data' = <<>>
    /\ driver_id' = 0
    /\ g_pc' = "for_driver"
    /\ UNCHANGED <<num_drivers, simulation_days, day, i, hour, minute,
                   route_points, df, g_error>>
    /\ UNCHANGED <<agg_vars, wf_vars>>

\* line 108: for driver_id in range(num_drivers)
ForDriver ==
    /\ g_pc = "for_driver"
    /\ IF driver_id < num_drivers
       THEN /\ day' = 0
            /\ g_pc' = "for_day"
       ELSE /\ g_pc' = "make_df"
            /\ UNCHANGED day
    /\ UNCHANGED <<num_drivers, simulation_days, driver_id, i, hour, minute,
                   route_points, all_data, df, g_error>>
    /\ UNCHANGED <<agg_vars, wf_vars>>

\* line 112: for day in range(simulation_days); lines 113-116 enter the route
ForDay ==
    /\ g_pc = "for_day"
    /\ IF day < simulation_days
       THEN /\ route_points' = <<>>
            /\ i' = 0
            /\ g_pc' = "morning"
            /\ UNCHANGED driver_id
       ELSE /\ driver_id' = driver_id + 1
            /\ g_pc' = "for_driver"
            /\ UNCHANGED <<route_points, i>>
    /\ UNCHANGED <<num_drivers, simulation_days, day, hour, minute, all_data, df, g_error>>
    /\ UNCHANGED <<agg_vars, wf_vars>>

\* lines 45-58
Morning ==
    /\ g_pc = "morning"
    /\ IF i < num_points
       THEN /\ route_points' = Append(route_points, MorningSample(DayStart(day), i))
            /\ i' = i + 1
            /\ UNCHANGED <<g_pc, hour, minute>>
       ELSE /\ g_pc' = "workday"
            /\ hour' = 0
            /\ minute' = 0
            /\ UNCHANGED <<route_points, i>>
    /\ UNCHANGED <<num_drivers, simulation_days, driver_id, day, all_data, df, g_error>>
    /\ UNCHANGED <<agg_vars, wf_vars>>

\* lines 62-68
Workday ==
    /\ g_pc = "workday"
    /\ IF hour < WorkHours
       THEN /\ route_points' = Append(route_points, WorkSample(DayStart(day), hour, minute))
            /\ IF minute + MinuteStep < 60
               THEN /\ minute' = minute + MinuteStep
                    /\ hour' = hour
               ELSE /\ minute' = 0
                    /\ hour' = hour + 1
            /\ UNCHANGED <<g_pc, i>>
       ELSE /\ g_pc' = "evening"
            /\ i' = 0
            /\ UNCHANGED <<route_points, hour, minute>>
    /\ UNCHANGED <<num_drivers, simulation_days, driver_id, day, all_data, df, g_error>>
    /\ UNCHANGED <<agg_vars, wf_vars>>

\* lines 75-86, then the return of line 88
Evening ==
    /\ g_pc = "evening"
    /\ IF i < num_evening_points
       THEN /\ route_points' = Append(route_points, EveningSample(DayStart(day), i))
            /\ i' = i + 1
            /\ UNCHANGED g_pc
       ELSE /\ g_pc' = "route_return"
            /\ UNCHANGED <<route_points, i>>
    /\ UNCHANGED <<num_drivers, simulation_days, driver_id, day, hour, minute,
                   all_data, df, g_error>>
    /\ UNCHANGED <<agg_vars, wf_vars>>

\* lines 116-125: the returned route is appended to all_data, next day
AppendRoute ==
    /\ g_pc = "route_return"
    /\ all_data' = all_data \o RouteRows(driver_id, route_points)
    /\ day' = day + 1
    /\ g_pc' = "for_day"
    /\ UNCHANGED <<num_drivers, simulation_days, driver_id, i, hour, minute,
                   route_points, df, g_error>>
    /\ UNCHANGED <<agg_vars, wf_vars>>

\* lines 128-134: pd.DataFrame(all_data); df['driver_id'] of a frame built from
\* an empty list raises KeyError (no columns); otherwise df is returned
MakeDataFrame ==
    /\ g_pc = "make_df"
    /\ df' = all_data
    /\ IF all_data = <<>>
       THEN /\ g_pc' = "error"
            /\ g_error' = "KeyError"
       ELSE /\ g_pc' = "done"
            /\ UNCHANGED g_error
    /\ UNCHANGED <<num_drivers, simulation_days, driver_id, day, i, hour, minute,
                   route_points, all_data>>
    /\ UNCHANGED <<agg_vars, wf_vars>>

GenNext ==
    \/ Begin
    \/ ForDriver
    \/ ForDay
    \/ Morning
    \/ Workday
    \/ Evening
    \/ AppendRoute
    \/ MakeDataFrame

(***************************************************************************)
(* analyze_congestion_patterns                                             *)
(*                                                                         *)
(* Coordinates are whole degrees.  Every derived float is kept as an exact *)
(* fraction [num, den]: bin edges over grid_size, cell midpoints over      *)
(* 2 * grid_size, means over the number of points.                         *)
(***************************************************************************)
grid_size == 10
Points == {[lat |-> 40, lon |-> -74], [lat |-> 41, lon |-> -74], [lat |-> 42, lon |-> -73]}
CoordSeqs == UNION {[1..n -> Points] : n \in 0..MaxPoints}

Cells == (0..(grid_size - 1)) \X (0..(grid_size - 1))

Min2(a, b) == IF a <= b THEN a ELSE b
Max2(a, b) == IF a >= b THEN a ELSE b

RECURSIVE SeqMin(_), SeqMax(_), SeqSum(_)
\* np.min / np.max / np.sum over a non-empty column
SeqMin(s) == IF Len(s) = 1 THEN s[1] ELSE Min2(s[1], SeqMin(Tail(s)))
SeqMax(s) == IF Len(s) = 1 THEN s[1] ELSE Max2(s[1], SeqMax(Tail(s)))
SeqSum(s) == IF s = <<>> THEN 0 ELSE s[1] + SeqSum(Tail(s))

\* all_coords[:, 0] and all_coords[:, 1]
LatColumn(coords) == [n \in 1..Len(coords) |-> coords[n].lat]
LonColumn(coords) == [n \in 1..Len(coords) |-> coords[n].lon]

\* np.mean of a non-empty column
Mean(col) == [num |-> SeqSum(col), den |-> Len(col)]

\* np.linspace(lo, hi, n + 1): n + 1 evenly spaced edges, as numerators over n
Linspace(lo, hi, n) == [e \in 1..(n + 1) |-> n * lo + (e - 1) * (hi - lo)]

lat_bins(bb) == Linspace(bb.lat_min, bb.lat_max, grid_size)
lon_bins(bb) == Linspace(bb.lon_min, bb.lon_max, grid_size)

\* np.digitize(x, bins) for non-decreasing bins: the number of edges <= x
Digitize(x, bins) == Cardinality({e \in 1..Len(bins) : bins[e] <= grid_size * x})

\* max(0, min(idx, grid_size - 1))
Clamp(idx) == Max2(0, Min2(idx, grid_size - 1))

\* lines 110 and 114 / 111 and 115
BinIndex(x, bins) == Clamp(Digitize(x, bins) - 1)

\* variant: "= 1" written for "+= 1"
IncrementAssign(grid, r, c) == [grid EXCEPT ![<<r, c>>] = 1]
\* congestion_grid[lat_idx, lon_idx] += 1
Increment(grid, r, c) == [grid EXCEPT ![<<r, c>>] = @ + 1]

RECURSIVE RowMax(_, _, _), GridMaxFrom(_, _)
\* np.max(congestion_grid): the largest cell, row by row
RowMax(grid, r, c) ==
    IF c = grid_size - 1 THEN grid[<<r, c>>]
    ELSE Max2(grid[<<r, c>>], RowMax(grid, r, c + 1))
GridMaxFrom(grid, r) ==
    IF r = grid_size - 1 THEN RowMax(grid, r, 0)
    ELSE Max2(RowMax(grid, r, 0), GridMaxFrom(grid, r + 1))
GridMax(grid) == GridMaxFrom(grid, 0)

\* variant: the "top 30%" of the comment taken as the factor (0.3)
MeetsThresholdTop30(count, max_congestion) == 10 * count >= 3 * max_congestion
\* congestion_grid[i, j] >= max_congestion * 0.7
MeetsThreshold(count, max_congestion) == 10 * count >= 7 * max_congestion

\* (bins[b] + bins[b + 1]) / 2 for the 0-based bin b
Midpoint(bins, b) == [num |-> bins[b + 1] + bins[b + 2], den |-> 2 * grid_size]

\* lines 128-134
Hotspot(grid, bb, r, c) ==
    [latitude         |-> Midpoint(lat_bins(bb), r),
     longitude        |-> Midpoint(lon_bins(bb), c),
     congestion_level |-> grid[<<r, c>>]]

RECURSIVE HotspotRow(_, _, _, _, _), HotspotScan(_, _, _, _)
\* lines 125-134: the inner loop over j for row r
HotspotRow(grid, bb, max_congestion, r, c) ==
    IF c = grid_size THEN <<>>
    ELSE (IF MeetsThreshold(grid[<<r, c>>], max_congestion)
          THEN <<Hotspot(grid, bb, r, c)>>
          ELSE <<>>) \o HotspotRow(grid, bb, max_congestion, r, c + 1)
\* lines 123-134: the outer loop over i
HotspotScan(grid, bb, max_congestion, r) ==
    IF r = grid_size THEN <<>>
    ELSE HotspotRow(grid, bb, max_congestion, r, 0)
         \o HotspotScan(grid, bb, max_congestion, r + 1)

NoBBox == [lat_min |-> 0, lat_max |-> 0, lon_min |-> 0, lon_max |-> 0]
NoMean == [num |-> 0, den |-> 0]
ZeroGrid == [c \in Cells |-> 0]

AggInit ==
    /\ a_pc = "start"
    /\ all_coords \in CoordSeqs
    /\ total_points = 0
    /\ average_location = [lat |-> NoMean, lon |-> NoMean]
    /\ bbox = NoBBox
    /\ k = 0
    /\ lat_idx = 0
    /\ lon_idx = 0
    /\ congestion_grid = ZeroGrid
    /\ hotspots = <<>>
    /\ a_error = "none"

\* lines 92-107.  On an empty (0, 2) array np.mean only warns and yields nan,
\* and np.min raises ValueError (zero-size array has no minimum).
Prepare ==
    /\ a_pc = "start"
    /\ total_points' = Len(all_coords)
    /\ IF all_coords = <<>>
       THEN /\ a_pc' = "error"
            /\ a_error' = "ValueError"
            /\ UNCHANGED <<average_location, bbox, congestion_grid>>
       ELSE /\ average_location' = [lat |-> Mean(LatColumn(all_coords)),
                                    lon |-> Mean(LonColumn(all_coords))]
            /\ bbox' = [lat_min |-> SeqMin(LatColumn(all_coords)),
                        lat_max |-> SeqMax(LatColumn(all_coords)),
                        lon_min |-> SeqMin(LonColumn(all_coords)),
                        lon_max |-> SeqMax(LonColumn(all_coords))]
            /\ congestion_grid' = ZeroGrid
            /\ a_pc' = "count"
            /\ UNCHANGED a_error
    /\ k' = 0
    /\ UNCHANGED <<all_coords, lat_idx, lon_idx, hotspots>>
    /\ UNCHANGED <<gen_vars, wf_vars>>

\* lines 109-117
CountPoint ==
    /\ a_pc = "count"
    /\ IF k < Len(all_coords)
       THEN /\ lat_idx' = BinIndex(all_coords[k + 1].lat, lat_bins(bbox))
            /\ lon_idx' = BinIndex(all_coords[k + 1].lon, lon_bins(bbox))
            /\ congestion_grid' = Increment(congestion_grid, lat_idx', lon_idx')
            /\ k' = k + 1
            /\ UNCHANGED a_pc
       ELSE /\ a_pc' = "hotspots"
            /\ UNCHANGED <<lat_idx, lon_idx, congestion_grid, k>>
    /\ UNCHANGED <<all_coords, total_points, average_location, bbox, hotspots, a_error>>
    /\ UNCHANGED <<gen_vars, wf_vars>>

\* lines 120-145
FindHotspots ==
    /\ a_pc = "hotspots"
    /\ hotspots' = HotspotScan(congestion_grid, bbox, GridMax(congestion_grid), 0)
    /\ a_pc' = "done"
    /\ UNCHANGED <<all_coords, total_points, average_location, bbox, k, lat_idx, lon_idx,
                   congestion_grid, a_error>>
    /\ UNCHANGED <<gen_vars, wf_vars>>

AggNext ==
    \/ Prepare
    \/ CountPoint
    \/ FindHotspots

(***************************************************************************)
(* The researcher workflow: main() of analyze.py                           *)
(*                                                                         *)
(* Every call into the syft library either returns or raises an Exception; *)
(* which of the two is the environment's choice.                           *)
(***************************************************************************)
Items == {"all_gps_coordinates", "driver_ids", "other_item"}

WfInit ==
    /\ w_pc = "connect"
    /\ store \in SUBSET Items
    /\ connected = FALSE
    /\ available_data = {}
    /\ coords_ref = FALSE
    /\ ids_ref = FALSE
    /\ analysis_request = "none"
    /\ req_outcome = "none"
    /\ results = "none"
    /\ visualized = FALSE
    /\ displayed = FALSE
    /\ w_error = "none"

\* lines 264, 17-36: sy.login returns the domain, or raises and
\* connect_as_researcher re-raises into main's handler (lines 286-291)
Connect ==
    /\ w_pc = "connect"
    /\ \E ok \in BOOLEAN :
           IF ok
           THEN /\ connected' = TRUE
                /\ w_pc' = "explore"
                /\ UNCHANGED w_error
           ELSE /\ w_pc' = "failed"
                /\ w_error' = "login failed"
                /\ UNCHANGED connected
    /\ UNCHANGED <<store, available_data, coords_ref, ids_ref, analysis_request,
                   req_outcome, results, visualized, displayed>>
    /\ UNCHANGED <<gen_vars, agg_vars>>

\* lines 267, 39-63: list(domain.store.keys()), or [] when that raises
Explore ==
    /\ w_pc = "explore"
    /\ \E ok \in BOOLEAN : available_data' = IF ok THEN store ELSE {}
    /\ w_pc' = "check_data"
    /\ UNCHANGED <<store, connected, coords_ref, ids_ref, analysis_request,
                   req_outcome, results, visualized, displayed, w_error>>
    /\ UNCHANGED <<gen_vars, agg_vars>>

\* lines 269-274: return early without data, else call request_congestion_analysis
CheckData ==
    /\ w_pc = "check_data"
    /\ w_pc' = IF available_data = {} THEN "returned_early" ELSE "define_function"
    /\ UNCHANGED <<store, connected, available_data, coords_ref, ids_ref,
                   analysis_request, req_outcome, results, visualized, displayed, w_error>>
    /\ UNCHANGED <<gen_vars, agg_vars>>

\* lines 82-83: the decorator sy.syft_function_single_use() runs outside the
\* try block; an exception leaves request_congestion_analysis directly
DefineFunction ==
    /\ w_pc = "define_function"
    /\ \E ok \in BOOLEAN :
           IF ok
           THEN /\ w_pc' = "lookup_coords"
                /\ UNCHANGED <<req_outcome, w_error>>
           ELSE /\ w_pc' = "after_request"
                /\ req_outcome' = "raised"
                /\ w_error' = "syft_function_single_use failed"
    /\ UNCHANGED <<store, connected, available_data, coords_ref, ids_ref,
                   analysis_request, results, visualized, displayed>>
    /\ UNCHANGED <<gen_vars, agg_vars>>

\* line 149: domain.store["all_gps_coordinates"]; a failure goes through the
\* handler of lines 167-170, which re-raises
LookupCoords ==
    /\ w_pc = "lookup_coords"
    /\ \E ok \in BOOLEAN :
           IF ok /\ "all_gps_coordinates" \in store
           THEN /\ coords_ref' = TRUE
                /\ w_pc' = "lookup_ids"
                /\ UNCHANGED <<req_outcome, w_error>>
           ELSE /\ w_pc' = "after_request"
                /\ req_outcome' = "raised"
                /\ w_error' = "store lookup failed"
                /\ UNCHANGED coords_ref
    /\ UNCHANGED <<store, connected, available_data, ids_ref, analysis_request,
                   results, visualized, displayed>>
    /\ UNCHANGED <<gen_vars, agg_vars>>

\* line 150: domain.store["driver_ids"]
LookupIds ==
    /\ w_pc = "lookup_ids"
    /\ \E ok \in BOOLEAN :
           IF ok /\ "driver_ids" \in store
           THEN /\ ids_ref' = TRUE
                /\ w_pc' = "request_execution"
                /\ UNCHANGED <<req_outcome, w_error>>
           ELSE /\ w_pc' = "after_request"
                /\ req_outcome' = "raised"
                /\ w_error' = "store lookup failed"
                /\ UNCHANGED ids_ref
    /\ UNCHANGED <<store, connected, available_data, coords_ref, analysis_request,
                   results, visualized, displayed>>
    /\ UNCHANGED <<gen_vars, agg_vars>>

\* line 153: domain.code.request_code_execution(analyze_congestion_patterns)
RequestExecution ==
    /\ w_pc = "request_execution"
    /\ \E ok \in BOOLEAN :
           IF ok
           THEN /\ analysis_request' = "created"
                /\ w_pc' = "send"
                /\ UNCHANGED <<req_outcome, w_error>>
           ELSE /\ w_pc' = "after_request"
                /\ req_outcome' = "raised"
                /\ w_error' = "request_code_execution failed"
                /\ UNCHANGED analysis_request
    /\ UNCHANGED <<store, connected, available_data, coords_ref, ids_ref,
                   results, visualized, displayed>>
    /\ UNCHANGED <<gen_vars, agg_vars>>

\* line 154: analysis_request.send()
Send ==
    /\ w_pc = "send"
    /\ \E ok \in BOOLEAN :
           IF ok
           THEN /\ analysis_request' = "sent"
                /\ w_pc' = "submitted"
                /\ UNCHANGED <<req_outcome, w_error>>
           ELSE /\ w_pc' = "after_request"
                /\ req_outcome' = "raised"
                /\ w_error' = "send failed"
                /\ UNCHANGED analysis_request
    /\ UNCHANGED <<store, connected, available_data, coords_ref, ids_ref,
                   results, visualized, displayed>>
    /\ UNCHANGED <<gen_vars, agg_vars>>

\* variant: the submitted request's result is returned instead of raising
SubmittedOutcomeReturns == "returned"
\* line 165: raise Exception("Real Syft domain required for analysis")
SubmittedOutcome == "raised"

\* lines 156-170: the messages, the unconditional raise, the handler's re-raise
EndRequest ==
    /\ w_pc = "submitted"
    /\ req_outcome' = SubmittedOutcome
    /\ w_error' = IF SubmittedOutcome = "raised"
                  THEN "Real Syft domain required for analysis" ELSE w_error
    /\ w_pc' = "after_request"
    /\ UNCHANGED <<store, connected, available_data, coords_ref, ids_ref,
                   analysis_request, results, visualized, displayed>>
    /\ UNCHANGED <<gen_vars, agg_vars>>

\* lines 274-291: with a returned result main visualizes, displays and
\* completes; with an exception it runs its failure branch
AfterRequest ==
    /\ w_pc = "after_request"
    /\ IF req_outcome = "returned"
       THEN /\ results' = "analysis"
            /\ visualized' = TRUE
            /\ displayed' = TRUE
            /\ w_pc' = "complete"
       ELSE /\ w_pc' = "failed"
            /\ UNCHANGED <<results, visualized, displayed>>
    /\ UNCHANGED <<store, connected, available_data, coords_ref, ids_ref,
                   analysis_request, req_outcome, w_error>>
    /\ UNCHANGED <<gen_vars, agg_vars>>

WfNext ==
    \/ Connect
    \/ Explore
    \/ CheckData
    \/ DefineFunction
    \/ LookupCoords
    \/ LookupIds
    \/ RequestExecution
    \/ Send
    \/ EndRequest
    \/ AfterRequest

\* main() is not running
WfIdle ==
    /\ w_pc = "idle"
    /\ store = {}
    /\ connected = FALSE
    /\ available_data = {}
    /\ coords_ref = FALSE
    /\ ids_ref = FALSE
    /\ analysis_request = "none"
    /\ req_outcome = "none"
    /\ results = "none"
    /\ visualized = FALSE
    /\ displayed = FALSE
    /\ w_error = "none"

(***************************************************************************)
(* Specifications                                                          *)
(***************************************************************************)
\* the aggregator is not running
AggIdle ==
    /\ a_pc = "idle"
    /\ all_coords = <<>>
    /\ total_points = 0
    /\ average_location = [lat |-> NoMean, lon |-> NoMean]
    /\ bbox = NoBBox
    /\ k = 0
    /\ lat_idx = 0
    /\ lon_idx = 0
    /\ congestion_grid = ZeroGrid
    /\ hotspots = <<>>
    /\ a_error = "none"

\* the generator is not running
GenIdle ==
    /\ g_pc = "idle"
    /\ num_drivers = 0
    /\ simulation_days = 0
    /\ driver_id = 0
    /\ day = 0
    /\ i = 0
    /\ hour = 0
    /\ minute = 0
    /\ route_points = <<>>
    /\ all_data = <<>>
    /\ df = <<>>
    /\ g_error = "none"

\* generate_traffic_data(num_drivers, simulation_days)
InitGen == GenInit /\ AggIdle /\ WfIdle
SpecGen == InitGen /\ [][GenNext]_vars

\* analyze_congestion_patterns(all_coords, driver_ids)
InitAgg == AggInit /\ GenIdle /\ WfIdle
SpecAgg == InitAgg /\ [][AggNext]_vars

\* main() of analyze.py
InitWf == WfInit /\ GenIdle /\ AggIdle
SpecWf == InitWf /\ [][WfNext]_vars

Init == InitGen \/ InitAgg \/ InitWf
Next == GenNext \/ AggNext \/ WfNext
Spec == Init /\ [][Next]_vars

(***************************************************************************)
(* Properties                                                              *)
(***************************************************************************)
TdLess(x, y) == x.s < y.s \/ (x.s = y.s /\ x.ns < y.ns)

\* time between sample n and sample n + 1 of the current route
Delta(n) == TsSub(route_points[n + 1].timestamp, route_points[n].timestamp)

\* C1: the samples of a route are in chronological order: each sample's
\* timestamp is >= the timestamp of the sample before it, across all three
\* segments and both segment boundaries.
CE_C1_Chronological ==
    \A n \in 1..(Len(route_points) - 1) :
        TsLeq(route_points[n].timestamp, route_points[n + 1].timestamp)

RECURSIVE RowTotal(_, _, _), GridTotalFrom(_, _)
RowTotal(grid, r, c) ==
    IF c = grid_size THEN 0 ELSE grid[<<r, c>>] + RowTotal(grid, r, c + 1)
GridTotalFrom(grid, r) ==
    IF r = grid_size THEN 0 ELSE RowTotal(grid, r, 0) + GridTotalFrom(grid, r + 1)
GridTotal(grid) == GridTotalFrom(grid, 0)

\* C2: for a non-empty input, each processed point adds one to exactly one
\* cell, so once all points are processed the cells of congestion_grid sum to
\* the number of input points, and total_gps_points is that number too.
Thm_C2_GridSumEqualsPoints ==
    /\ a_pc = "count" => GridTotal(congestion_grid) = k
    /\ (a_pc \in {"hotspots", "done"} /\ all_coords # <<>>) =>
           /\ GridTotal(congestion_grid) = Len(all_coords)
           /\ total_points = Len(all_coords)

Wit_C2_SeveralCells ==
    /\ a_pc = "done"
    /\ Len(all_coords) = 5
    /\ Cardinality({c \in Cells : congestion_grid[c] > 0}) >= 2

\* the largest cell count of the grid
MaxCell ==
    CHOOSE m \in 0..Len(all_coords) :
        /\ \E c \in Cells : congestion_grid[c] = m
        /\ \A c \in Cells : congestion_grid[c] <= m
\* the cells whose count is >= 0.7 x m
HotCellsFor(m) == {c \in Cells : 10 * congestion_grid[c] >= 7 * m}
ExpectedHotspot(c) ==
    [latitude  |-> [num |-> 20 * bbox.lat_min
                            + (2 * c[1] + 1) * (bbox.lat_max - bbox.lat_min),
                    den |-> 20],
     longitude |-> [num |-> 20 * bbox.lon_min
                            + (2 * c[2] + 1) * (bbox.lon_max - bbox.lon_min),
                    den |-> 20],
     congestion_level |-> congestion_grid[c]]

\* C3: in the result a cell is a hotspot exactly when its count is
\* >= 0.7 x the largest cell count: every such cell is reported once, with
\* its raw count as congestion_level, and nothing else is reported.
Thm_C3_HotspotsIffThreshold ==
    a_pc = "done" =>
        LET m   == MaxCell
            hot == HotCellsFor(m)
        IN  /\ Len(hotspots) = Cardinality(hot)
            /\ \A c \in hot :
                   Cardinality({n \in 1..Len(hotspots) : hotspots[n] = ExpectedHotspot(c)}) = 1
            /\ \A n \in 1..Len(hotspots) :
                   /\ 10 * hotspots[n].congestion_level >= 7 * m
                   /\ \E c \in hot : hotspots[n] = ExpectedHotspot(c)

Wit_C3_HotBelowMax ==
    /\ a_pc = "done"
    /\ Len(hotspots) = 2
    /\ \E c \in HotCellsFor(MaxCell) : congestion_grid[c] < MaxCell
    /\ \E c \in Cells : c \notin HotCellsFor(MaxCell)

\* C4: an empty point set is analysed without an exception and yields an
\* all-zero grid and an empty hotspot list.
CE_C4_EmptyInputCompletes ==
    all_coords = <<>> =>
        /\ a_error = "none"
        /\ a_pc = "done" => (congestion_grid = ZeroGrid /\ hotspots = <<>>)

Degenerate ==
    bbox.lat_min = bbox.lat_max /\ bbox.lon_min = bbox.lon_max

\* C5: when all points are identical every point goes to bin 0 on both axes;
\* 3 points at (40.0, -74.0) give cell (0,0) = 3, every other cell 0, and the
\* single hotspot {latitude 40.0, longitude -74.0, congestion_level 3}.
CE_C5_DegenerateBinZero ==
    /\ (k > 0 /\ Degenerate) => (lat_idx = 0 /\ lon_idx = 0)
    /\ (a_pc = "done" /\ all_coords = [n \in 1..3 |-> [lat |-> 40, lon |-> -74]]) =>
           /\ congestion_grid = [c \in Cells |-> IF c = <<0, 0>> THEN 3 ELSE 0]
           /\ Len(hotspots) = 1
           /\ hotspots[1].latitude.num = 40 * hotspots[1].latitude.den
           /\ hotspots[1].longitude.num = (-74) * hotspots[1].longitude.den
           /\ hotspots[1].congestion_level = 3

SegAt(m) == IF m <= 20 THEN "morning" ELSE IF m <= 52 THEN "workday" ELSE "evening"

\* C6: for num_drivers D >= 1 and simulation_days N >= 1 the call succeeds and
\* returns D x N routes of 72 rows each (20 morning, 32 workday, 20 evening, in
\* that order): D x N x 72 rows, N x 72 of them for each driver_id in 0..D-1.
Thm_C6_RowCounts ==
    /\ (num_drivers >= 1 /\ simulation_days >= 1) => g_pc # "error"
    /\ g_pc = "route_return" => Len(route_points) = 72
    /\ g_pc = "done" =>
           /\ Len(df) = num_drivers * simulation_days * 72
           /\ \A d \in 0..(num_drivers - 1) :
                  Cardinality({n \in 1..Len(df) : df[n].driver_id = d})
                      = simulation_days * 72
           /\ \A r \in 0..(num_drivers * simulation_days - 1) :
                  \A m \in 1..72 : df[72 * r + m].seg = SegAt(m)

Wit_C6_TwoDriversTwoDays ==
    g_pc = "done" /\ num_drivers = 2 /\ simulation_days = 2

\* 0.3 < j/19 < 0.7 and 0.2 < j/19 < 0.8
MorningCongested(j) == 3 * 19 < 10 * j /\ 10 * j < 7 * 19
EveningCongested(j) == 2 * 19 < 10 * j /\ 10 * j < 8 * 19

\* C7: within the morning commute, and within the evening commute, the time
\* between two consecutive samples that both lie inside the congestion window
\* is strictly greater than the time between two consecutive samples that
\* both lie outside it.
Thm_C7_CongestedDeltaLarger ==
    g_pc = "route_return" =>
        \A a, b \in 0..18 :
            /\ (MorningCongested(a) /\ MorningCongested(a + 1)
                /\ ~MorningCongested(b) /\ ~MorningCongested(b + 1))
                   => TdLess(Delta(b + 1), Delta(a + 1))
            /\ (EveningCongested(a) /\ EveningCongested(a + 1)
                /\ ~EveningCongested(b) /\ ~EveningCongested(b + 1))
                   => TdLess(Delta(52 + b + 1), Delta(52 + a + 1))

Wit_C7_RouteWithBothDeltas ==
    /\ g_pc = "route_return"
    /\ MorningCongested(6) /\ MorningCongested(7) /\ Delta(7).s = 568
    /\ ~MorningCongested(0) /\ ~MorningCongested(1) /\ Delta(1).s = 378
    /\ EveningCongested(4) /\ EveningCongested(5) /\ Delta(57).s = 492
    /\ ~EveningCongested(18) /\ ~EveningCongested(19) /\ Delta(71).s = 378

\* C8: the first sample of a route is stamped 07:00 of its day and the last
\* sample 19:00 (07:00 + 2 h commute + 8 h workday + 2 h evening commute).
Thm_C8_FirstAndLastTimestamp ==
    g_pc = "route_return" =>
        /\ route_points[1].timestamp = [s |-> day * 86400 + 7 * 3600, ns |-> 0]
        /\ route_points[Len(route_points)].timestamp
               = [s |-> day * 86400 + 19 * 3600, ns |-> 0]

Wit_C8_SingleDriverSingleDay ==
    /\ g_pc = "route_return"
    /\ num_drivers = 1 /\ simulation_days = 1
    /\ Len(route_points) = 72

\* C9: with a non-positive num_drivers or simulation_days the call ends at
\* once in an input-validation error: it never enters its loops, builds no
\* frame and returns nothing.
CE_C9_InvalidCountsRejected ==
    (num_drivers <= 0 \/ simulation_days <= 0) =>
        \/ g_pc = "start"
        \/ (g_pc = "error" /\ g_error = "ValueError")

\* C10: the indices used to increment the grid lie in 0..grid_size-1; a point
\* on the bounding-box maximum is counted in the last bin and a point on the
\* bounding-box minimum in bin 0.
CE_C10_BoundaryBins ==
    (a_pc \in {"count", "hotspots", "done"} /\ k > 0) =>
        LET p == all_coords[k]
        IN  /\ lat_idx \in 0..(grid_size - 1)
            /\ lon_idx \in 0..(grid_size - 1)
            /\ p.lat = bbox.lat_max => lat_idx = grid_size - 1
            /\ p.lon = bbox.lon_max => lon_idx = grid_size - 1
            /\ p.lat = bbox.lat_min => lat_idx = 0
            /\ p.lon = bbox.lon_min => lon_idx = 0

\* C12: in every run of main(), request_congestion_analysis never returns a
\* result: once entered it ends by raising, whether or not the store lookups
\* and the submission succeeded; visualize_congestion_analysis and
\* display_insights are never called, no result reaches the researcher, and
\* main ends in its failure branch, or returns early when no data item is
\* available.
Thm_C12_NoResultDelivered ==
    /\ results = "none"
    /\ ~visualized
    /\ ~displayed
    /\ req_outcome # "returned"
    /\ w_pc = "after_request" => req_outcome = "raised"
    /\ w_pc = "returned_early" => (available_data = {} /\ req_outcome = "none")
    /\ (w_pc # "idle" /\ ~ENABLED WfNext) => w_pc \in {"failed", "returned_early"}

Wit_C12_SubmittedThenFailed ==
    /\ w_pc = "failed"
    /\ coords_ref /\ ids_ref
    /\ analysis_request = "sent"
    /\ w_error = "Real Syft domain required for analysis"

====
